---------------------------- MODULE Spec2Model ----------------------------
(***************************************************************************)
(* Model of ServerActionCreator.ts: the OpenAPI -> Next.js server-action   *)
(* generator.  Text is modelled as a sequence of tokens: identifiers and    *)
(* routes are spelled character by character; the segments of a reference  *)
(* string and the fixed fragments of the generator's templates (": ",      *)
(* "; ", "Array<", ...) are one token each.                                *)
(***************************************************************************)
EXTENDS Naturals, Sequences, FiniteSets, TLC

VARIABLES
    doc,         \* the parsed description document (yaml.load result)
    pc,          \* position of the generator's top-level script
    dirExists,   \* whether OUTPUT_DIR exists on disk
    pi,          \* index of the current entry of Object.entries(paths)
    mi,          \* index of the current entry of Object.entries(methods)
    files,       \* OUTPUT_DIR: file name (without ".ts") -> content
    written,     \* history: the writeFileSync calls of the current run
    runs,        \* number of completed generation passes
    firstFiles,  \* history: OUTPUT_DIR as the first pass left it
    input,       \* SpecCompile / SpecSynth: the arguments of the call
    output,      \* SpecCompile / SpecSynth: what the call returned or threw
    call         \* SpecCall: one invocation of a generated function

vars == <<doc, pc, dirExists, pi, mi, files, written, runs, firstFiles,
          input, output, call>>

-----------------------------------------------------------------------------
(* Bounds of the model *)

\* depth of nested schemaToTS calls the engine's call stack holds
StackLimit == 7
\* (path, method) pairs in a document of the emission driver
MaxOps == 3
\* generation passes over the same document
MaxRuns == 2

-----------------------------------------------------------------------------
(* Text *)

LowerChars == <<"a","b","c","d","e","f","g","h","i","j","k","l","m",
                "n","o","p","q","r","s","t","u","v","w","x","y","z">>
UpperChars == <<"A","B","C","D","E","F","G","H","I","J","K","L","M",
                "N","O","P","Q","R","S","T","U","V","W","X","Y","Z">>
DigitChars == {"0","1","2","3","4","5","6","7","8","9"}

IsLower(c) == \E k \in 1..26 : LowerChars[k] = c
IsUpper(c) == \E k \in 1..26 : UpperChars[k] = c

\* the regular-expression class \w
IsWord(c) == IsLower(c) \/ IsUpper(c) \/ c \in DigitChars \/ c = "_"

\* String.prototype.toUpperCase on one character
CharToUpperCase(c) ==
    IF IsLower(c) THEN UpperChars[CHOOSE k \in 1..26 : LowerChars[k] = c] ELSE c

toUpperCase(s) == [k \in 1..Len(s) |-> CharToUpperCase(s[k])]

RECURSIVE SkipNonWord(_)
SkipNonWord(s) ==
    IF s = <<>> \/ IsWord(Head(s)) THEN s ELSE SkipNonWord(Tail(s))

\* s.replace(/\W+/g, '_')
RECURSIVE ReplaceNonWordRuns(_)
ReplaceNonWordRuns(s) ==
    IF s = <<>> THEN <<>>
    ELSE IF IsWord(Head(s)) THEN <<Head(s)>> \o ReplaceNonWordRuns(Tail(s))
    ELSE <<"_">> \o ReplaceNonWordRuns(SkipNonWord(Tail(s)))

\* s.replace(/_([a-z])/g, (_, c) => c.toUpperCase())
RECURSIVE CamelCase(_)
CamelCase(s) ==
    IF s = <<>> THEN <<>>
    ELSE IF Len(s) >= 2 /\ s[1] = "_" /\ IsLower(s[2])
         THEN <<CharToUpperCase(s[2])>> \o CamelCase(SubSeq(s, 3, Len(s)))
         ELSE <<Head(s)>> \o CamelCase(Tail(s))

\* whether pat occurs in s at position k
OccursAt(s, pat, k) ==
    /\ k >= 1
    /\ k + Len(pat) - 1 <= Len(s)
    /\ SubSeq(s, k, k + Len(pat) - 1) = pat

\* s.replace(pat, rep) with a string pattern: the first occurrence only
StringReplace(s, pat, rep) ==
    IF \E k \in 1..Len(s) : OccursAt(s, pat, k)
    THEN LET k == CHOOSE n \in 1..Len(s) :
                      /\ OccursAt(s, pat, n)
                      /\ \A m \in 1..(n - 1) : ~OccursAt(s, pat, m)
         IN  SubSeq(s, 1, k - 1) \o rep \o SubSeq(s, k + Len(pat), Len(s))
    ELSE s

\* s.split(sep) for a one-token separator
RECURSIVE Split(_, _)
Split(s, sep) ==
    IF \E k \in 1..Len(s) : s[k] = sep
    THEN LET k == CHOOSE n \in 1..Len(s) :
                      s[n] = sep /\ \A m \in 1..(n - 1) : s[m] # sep
         IN  <<SubSeq(s, 1, k - 1)>> \o Split(SubSeq(s, k + 1, Len(s)), sep)
    ELSE <<s>>

\* parts.join(sep)
RECURSIVE Join(_, _)
Join(parts, sep) ==
    IF parts = <<>> THEN <<>>
    ELSE IF Len(parts) = 1 THEN parts[1]
    ELSE parts[1] \o sep \o Join(Tail(parts), sep)

-----------------------------------------------------------------------------
(* Schema nodes (interface OpenAPISchema).  An optional field is a         *)
(* sequence of length 0 (absent) or 1; an absent string is <<>>.           *)

Schema(type, ref, items, properties, required) ==
    [type |-> type, ref |-> ref, items |-> items,
     properties |-> properties, required |-> required]

\* an object that carries neither $ref nor type
Untyped == Schema("", <<>>, <<>>, <<>>, <<>>)

\* what a call returned, or the error it threw
Returned(v) == [kind |-> "ok", value |-> v]
Threw(e) == [kind |-> e, value |-> <<>>]

(* Nodes of the document tree that resolveRef walks. *)
Node(tag, schema) == [tag |-> tag, schema |-> schema]
Undefined == Node("undefined", Untyped)

\* current[part], for a current that is not undefined
Index(current, part, d) ==
    CASE current.tag = "doc" ->
            IF part = <<"components">> /\ d.hasComponents
            THEN Node("components", Untyped) ELSE Undefined
      [] current.tag = "components" ->
            IF part = <<"schemas">> /\ d.hasSchemas
            THEN Node("schemas", Untyped) ELSE Undefined
      [] current.tag = "schemas" ->
            IF \E k \in 1..Len(d.schemas) : d.schemas[k].key = part
            THEN Node("schema",
                      d.schemas[CHOOSE k \in 1..Len(d.schemas) :
                                    d.schemas[k].key = part].value)
            ELSE Undefined
      [] OTHER -> Undefined

RECURSIVE Walk(_, _, _)
Walk(current, parts, d) ==
    IF parts = <<>> THEN Returned(current)
    ELSE IF current.tag = "undefined" THEN Threw("TypeError")
    ELSE Walk(Index(current, Head(parts), d), Tail(parts), d)

\* resolveRef(ref, doc): the node found, <<>> for undefined
resolveRef(ref, d) ==
    LET parts == Split(StringReplace(ref, <<"#/">>, <<>>), "/")
        found == Walk(Node("doc", Untyped), parts, d)
    IN  IF found.kind # "ok" THEN found
        ELSE IF found.value.tag = "undefined" THEN Returned(<<>>)
        ELSE Returned(<<found.value.schema>>)

RECURSIVE schemaToTSAt(_, _, _)
RECURSIVE PropsToTS(_, _, _, _)

\* mutant: the optional marker is put on the required properties
PropsToTSInverted(entries, required, d, depth) ==
    IF entries = <<>> THEN Returned(<<>>)
    ELSE LET key == entries[1].key
             isRequired == \E k \in 1..Len(required) : required[k] = key
             t == schemaToTSAt(<<entries[1].value>>, d, depth + 1)
         IN  IF t.kind # "ok" THEN t
             ELSE LET rest == PropsToTS(Tail(entries), required, d, depth)
                  IN  IF rest.kind # "ok" THEN rest
                      ELSE Returned(
                             <<key \o (IF isRequired THEN <<"?">> ELSE <<>>)
                                   \o <<": ">> \o t.value>> \o rest.value)

\* the callback of Object.entries(schema.properties).map, entry by entry
PropsToTS(entries, required, d, depth) ==
    IF entries = <<>> THEN Returned(<<>>)
    ELSE LET key == entries[1].key
             isRequired == \E k \in 1..Len(required) : required[k] = key
             t == schemaToTSAt(<<entries[1].value>>, d, depth + 1)
         IN  IF t.kind # "ok" THEN t
             ELSE LET rest == PropsToTS(Tail(entries), required, d, depth)
                  IN  IF rest.kind # "ok" THEN rest
                      ELSE Returned(
                             <<key \o (IF isRequired THEN <<>> ELSE <<"?">>)
                                   \o <<": ">> \o t.value>> \o rest.value)

\* schemaToTS(schema, doc) called with `depth` schemaToTS frames on the stack
schemaToTSAt(schema, d, depth) ==
    IF depth > StackLimit THEN Threw("RangeError")
    ELSE IF schema = <<>> THEN Returned(<<"any">>)
    ELSE LET s == schema[1] IN
      IF s.ref # <<>>
      THEN LET resolved == resolveRef(s.ref, d)
           IN  IF resolved.kind # "ok" THEN Threw(resolved.kind)
               ELSE schemaToTSAt(resolved.value, d, depth + 1)
      ELSE CASE s.type = "string" -> Returned(<<"string">>)
             [] s.type \in {"integer", "number"} -> Returned(<<"number">>)
             [] s.type = "boolean" -> Returned(<<"boolean">>)
             [] s.type = "array" ->
                  LET t == schemaToTSAt(s.items, d, depth + 1)
                  IN  IF t.kind # "ok" THEN t
                      ELSE Returned(<<"Array<">> \o t.value \o <<">">>)
             [] s.type = "object" ->
                  IF s.properties = <<>> THEN Returned(<<"Record<string, any>">>)
                  ELSE LET required == IF s.required = <<>> THEN <<>>
                                       ELSE s.required[1]
                           props == PropsToTS(s.properties[1], required, d, depth)
                       IN  IF props.kind # "ok" THEN props
                           ELSE Returned(<<"{">> \o Join(props.value, <<"; ">>)
                                                \o <<"}">>)
             [] OTHER -> Returned(<<"any">>)

schemaToTS(schema, d) == schemaToTSAt(schema, d, 1)

-----------------------------------------------------------------------------
(* Operations.  A Parameter is [name, in, required, schema]; an operation  *)
(* is [operationId, summary, description, parameters, requestBody,         *)
(* responseSchema]: requestBody is <<>> or <<[schema |-> optional schema]>>*)
(* (content['application/json']?.schema), responseSchema is                *)
(* responses?.['200']?.content?.['application/json']?.schema.              *)

Parameter(name, in, required, schema) ==
    [name |-> name, in |-> in, required |-> required, schema |-> schema]

Operation(operationId, parameters, requestBody, responseSchema) ==
    [operationId |-> operationId, summary |-> <<>>, description |-> <<>>,
     parameters |-> parameters, requestBody |-> requestBody,
     responseSchema |-> responseSchema]

\* const API_URL = '${process.env.API_URL}'
API_URL == <<"$", "{", "process.env.API_URL", "}">>

\* parameters.filter((p: Parameter) => p.in === location)
RECURSIVE FilterIn(_, _)
FilterIn(parameters, location) ==
    IF parameters = <<>> THEN <<>>
    ELSE (IF Head(parameters).in = location THEN <<Head(parameters)>> ELSE <<>>)
         \o FilterIn(Tail(parameters), location)

\* params.map(p => `${p.name}${optional marker}: ${schemaToTS(p.schema, doc)}`)
RECURSIVE ParamTypes(_, _, _)
ParamTypes(params, markOptional, d) ==
    IF params = <<>> THEN Returned(<<>>)
    ELSE LET p == Head(params)
             t == schemaToTS(p.schema, d)
         IN  IF t.kind # "ok" THEN t
             ELSE LET rest == ParamTypes(Tail(params), markOptional, d)
                  IN  IF rest.kind # "ok" THEN rest
                      ELSE Returned(
                             <<p.name
                               \o (IF markOptional /\ ~p.required THEN <<"?">> ELSE <<>>)
                               \o <<": ">> \o t.value>> \o rest.value)

\* let functionName = operation.operationId || `${method}${route.replace(...)}`,
\* then the camel-case fold
functionNameOf(route, method, operation) ==
    LET functionName == IF operation.operationId # <<>> THEN operation.operationId
                        ELSE method \o ReplaceNonWordRuns(route)
    IN  CamelCase(functionName)

\* mutant: the body part is joined without the comma
paramSignatureNoComma(pathParams, pathParamTypes, queryParams, queryParamTypes, requestBody, requestBodyType) ==
    LET names == [k \in 1..Len(pathParams) |-> pathParams[k].name]
        s1 == IF Len(pathParams) # 0
              THEN <<"{ ">> \o Join(names, <<", ">>) \o <<" }: { ">>
                            \o pathParamTypes \o <<" }">>
              ELSE <<>>
        s2 == IF Len(queryParams) # 0
              THEN s1 \o (IF s1 # <<>> THEN <<", ">> ELSE <<>>)
                      \o <<"query: { ">> \o queryParamTypes \o <<" }">>
              ELSE s1
        s3 == IF requestBody # <<>>
              THEN s2 \o <<"body: ">> \o requestBodyType
              ELSE s2
    IN  IF s3 # <<>> THEN s3 ELSE <<"_?: void">>

\* the parameter signature, part by part
paramSignatureOf(pathParams, pathParamTypes, queryParams, queryParamTypes, requestBody, requestBodyType) ==
    LET names == [k \in 1..Len(pathParams) |-> pathParams[k].name]
        s1 == IF Len(pathParams) # 0
              THEN <<"{ ">> \o Join(names, <<", ">>) \o <<" }: { ">>
                            \o pathParamTypes \o <<" }">>
              ELSE <<>>
        s2 == IF Len(queryParams) # 0
              THEN s1 \o (IF s1 # <<>> THEN <<", ">> ELSE <<>>)
                      \o <<"query: { ">> \o queryParamTypes \o <<" }">>
              ELSE s1
        s3 == IF requestBody # <<>>
              THEN s2 \o (IF s2 # <<>> THEN <<", ">> ELSE <<>>)
                      \o <<"body: ">> \o requestBodyType
              ELSE s2
    IN  IF s3 # <<>> THEN s3 ELSE <<"_?: void">>

\* pathParams.forEach(p => { url = url.replace(`{${p.name}}`, `\${${p.name}}`) })
RECURSIVE SubstitutePathParams(_, _)
SubstitutePathParams(url, pathParams) ==
    IF pathParams = <<>> THEN url
    ELSE LET name == Head(pathParams).name
         IN  SubstitutePathParams(
                 StringReplace(url, <<"{">> \o name \o <<"}">>,
                                    <<"$", "{">> \o name \o <<"}">>),
                 Tail(pathParams))

urlOf(route, pathParams) == SubstitutePathParams(API_URL \o route, pathParams)

\* the template literal generateFunction returns (fixed text abbreviated)
FunctionCode(operation, functionName, paramSignature, responseType, url, queryHandling, bodyHandling, method) ==
    <<"use server; doc: ">> \o operation.summary \o <<" / ">>
        \o operation.description \o <<"export async function ">>
        \o functionName \o <<"(">> \o paramSignature \o <<"): Promise<">>
        \o responseType \o <<" | null> {", "try {", "let url = ">> \o url
        \o <<";">> \o queryHandling \o bodyHandling
        \o <<"const res = await fetch(url, options);",
             "if (!res.ok) { console.error(API error: ">>
        \o toUpperCase(method)
        \o <<" url res.status); return null; }",
             "return await res.json();",
             "} catch (error) { console.error(error); return null; } }">>

\* generateFunction(route, method, operation): the code, or the error thrown
generateFunction(route, method, operation, d) ==
    LET functionName == functionNameOf(route, method, operation)
        parameters == operation.parameters
        pathParams == FilterIn(parameters, "path")
        queryParams == FilterIn(parameters, "query")
        requestBody == operation.requestBody
        responseSchema == operation.responseSchema
        pathParamTypes == ParamTypes(pathParams, FALSE, d)
        queryParamTypes == ParamTypes(queryParams, TRUE, d)
        requestBodyType == IF requestBody # <<>>
                           THEN schemaToTS(requestBody[1].schema, d)
                           ELSE Returned(<<"undefined">>)
        responseType == IF responseSchema # <<>>
                        THEN schemaToTS(responseSchema, d)
                        ELSE Returned(<<"any">>)
        queryHandling == IF Len(queryParams) # 0
                         THEN <<"const queryStr = new URLSearchParams(...).toString(); url += queryStr;">>
                         ELSE <<>>
        bodyHandling == IF requestBody # <<>>
                        THEN <<"const options = { headers: Content-Type json, body: JSON.stringify(body) };">>
                        ELSE <<"const options = {};">>
    IN  IF pathParamTypes.kind # "ok" THEN pathParamTypes
        ELSE IF queryParamTypes.kind # "ok" THEN queryParamTypes
        ELSE IF requestBodyType.kind # "ok" THEN requestBodyType
        ELSE IF responseType.kind # "ok" THEN responseType
        ELSE Returned(FunctionCode(
                 operation, functionName,
                 paramSignatureOf(pathParams, Join(pathParamTypes.value, <<"; ">>),
                                  queryParams, Join(queryParamTypes.value, <<"; ">>),
                                  requestBody, requestBodyType.value),
                 responseType.value, urlOf(route, pathParams),
                 queryHandling, bodyHandling, method))

\* mutant: the loop's copy of the naming rule lacks the camel-case fold
fileNameUnfolded(route, method, operation) ==
    IF operation.operationId # <<>> THEN operation.operationId
    ELSE method \o ReplaceNonWordRuns(route)

\* let fileName = operation.operationId || `${method}${route.replace(...)}`,
\* then the camel-case fold (the emission loop's own copy)
fileNameOf(route, method, operation) ==
    LET fileName == IF operation.operationId # <<>> THEN operation.operationId
                    ELSE method \o ReplaceNonWordRuns(route)
    IN  CamelCase(fileName)

\* mutant: an existing file is kept (flag 'wx' with the error swallowed)
writeFileSyncExclusive(fs, fileName, functionCode) ==
    [k \in DOMAIN fs \cup {fileName} |->
        IF k \in DOMAIN fs THEN fs[k] ELSE functionCode]

\* mutant: the code is appended to an existing file (appendFileSync)
writeFileSyncAppending(fs, fileName, functionCode) ==
    [k \in DOMAIN fs \cup {fileName} |->
        IF k # fileName THEN fs[k]
        ELSE IF k \in DOMAIN fs THEN fs[k] \o functionCode ELSE functionCode]

\* fs.writeFileSync(path.join(OUTPUT_DIR, `${fileName}.ts`), functionCode, 'utf8')
writeFileSync(fs, fileName, functionCode) ==
    [k \in DOMAIN fs \cup {fileName} |->
        IF k = fileName THEN functionCode ELSE fs[k]]

-----------------------------------------------------------------------------
(* Input universes *)

COMPONENTS == <<"components">>
SCHEMAS == <<"schemas">>

\* the $ref string '#/<first>/<middle>/<name>'
RefString(first, middle, name) ==
    <<"#/">> \o first \o <<"/">> \o middle \o <<"/">> \o name

Primitive(type) == Schema(type, <<>>, <<>>, <<>>, <<>>)
Reference(ref) == Schema("", ref, <<>>, <<>>, <<>>)
ArrayOf(items) == Schema("array", <<>>, items, <<>>, <<>>)
ObjectOf(entries, required) == Schema("object", <<>>, <<>>, <<entries>>, required)
Entry(key, value) == [key |-> key, value |-> value]

RefN == Reference(RefString(COMPONENTS, SCHEMAS, <<"N">>))
RefM == Reference(RefString(COMPONENTS, SCHEMAS, <<"M">>))
\* last segment absent from every document
RefLastAbsent == Reference(RefString(COMPONENTS, SCHEMAS, <<"X">>))
\* middle segment absent from every document
RefMiddleAbsent == Reference(RefString(COMPONENTS, <<"definitions">>, <<"N">>))
\* first segment absent from every document
RefFirstAbsent == Reference(RefString(<<"definitions">>, SCHEMAS, <<"N">>))

Document(hasComponents, hasSchemas, schemas, paths) ==
    [hasComponents |-> hasComponents, hasSchemas |-> hasSchemas,
     schemas |-> schemas, paths |-> paths]

\* what components.schemas.N and components.schemas.M may be
NSchemas ==
    { Primitive("string"),
      ObjectOf(<<Entry(<<"n","e","x","t">>, RefN)>>, <<>>),
      ObjectOf(<<Entry(<<"a">>, Primitive("string")), Entry(<<"b">>, RefM)>>,
               <<<< <<"a">> >>>>),
      ArrayOf(<<RefM>>) }
MSchemas == { Primitive("integer"), RefN, RefLastAbsent }

ComponentSets ==
    { Document(TRUE, TRUE, <<Entry(<<"N">>, n), Entry(<<"M">>, m)>>, <<>>) :
          n \in NSchemas, m \in MSchemas }
    \cup { Document(TRUE, FALSE, <<>>, <<>>), Document(FALSE, FALSE, <<>>, <<>>) }

\* property maps and required lists of the object schemas given to schemaToTS
MaxProps == 2
PropertyKeys == { <<"a">>, <<"b">>, <<"i","d">> }
PropertyValues ==
    { Primitive("string"), Primitive("integer"), RefN,
      ObjectOf(<<Entry(<<"a">>, Primitive("boolean")),
                 Entry(<<"b">>, Primitive("number"))>>, << <<>> >>) }
RequiredLists ==
    { <<>>, << <<>> >>, << << <<"a">> >> >>, << << <<"i","d">>, <<"b">> >> >>,
      << << <<"z">> >> >> }

PropertyMaps ==
    UNION { { [k \in 1..n |-> Entry(ks[k], vs[k])] :
                  ks \in { f \in [1..n -> PropertyKeys] :
                               \A x, y \in 1..n : x # y => f[x] # f[y] },
                  vs \in [1..n -> PropertyValues] } : n \in 0..MaxProps }

SynthSchemas ==
    { <<>> }
    \cup { <<Primitive(t)>> : t \in { "string", "integer", "number", "boolean",
                                      "object", "array", "null", "" } }
    \cup { <<r>> : r \in { RefN, RefM, RefLastAbsent, RefMiddleAbsent,
                           RefFirstAbsent } }
    \cup { <<ArrayOf(<<v>>)>> : v \in PropertyValues \cup { RefLastAbsent } }
    \cup { <<ObjectOf(ps, req)>> : ps \in PropertyMaps, req \in RequiredLists }

Pending == [kind |-> "pending", value |-> <<>>]
NoFiles == [k \in {} |-> <<>>]
Idle == [pc |-> "idle"]

-----------------------------------------------------------------------------
(* SpecSynth: one call schemaToTS(schema, doc) *)

InitSynth ==
    /\ doc \in ComponentSets
    /\ input \in { [schema |-> s] : s \in SynthSchemas }
    /\ output = Pending
    /\ pc = "call"
    /\ dirExists = FALSE /\ pi = 0 /\ mi = 0 /\ files = NoFiles
    /\ written = <<>> /\ runs = 0 /\ firstFiles = NoFiles /\ call = Idle

Synthesize ==
    /\ pc = "call"
    /\ output' = schemaToTS(input.schema, doc)
    /\ pc' = "returned"
    /\ UNCHANGED <<doc, dirExists, pi, mi, files, written, runs, firstFiles,
                   input, call>>

NextSynth == Synthesize

SpecSynth == InitSynth /\ [][NextSynth]_vars

-----------------------------------------------------------------------------
(* Reading generated text back *)

\* nesting depth contributed by one token of a type expression or signature
Opens(tok) == tok \in { "{", "{ ", "query: { " }
Closes(tok) == tok \in { "}", " }" }

\* text cut at the separators that lie outside every pair of braces
RECURSIVE SplitTopFrom(_, _, _, _)
SplitTopFrom(text, sep, depth, part) ==
    IF text = <<>> THEN <<part>>
    ELSE LET tok == Head(text) IN
         IF tok = sep /\ depth = 0
         THEN <<part>> \o SplitTopFrom(Tail(text), sep, 0, <<>>)
         ELSE SplitTopFrom(Tail(text), sep,
                           IF Opens(tok) THEN depth + 1
                           ELSE IF Closes(tok) THEN depth - 1 ELSE depth,
                           Append(part, tok))

SplitTop(text, sep) == IF text = <<>> THEN <<>> ELSE SplitTopFrom(text, sep, 0, <<>>)

\* position of the first token of text that is in toks (Len(text) + 1 if none)
FirstOf(text, toks) ==
    IF \E k \in 1..Len(text) : text[k] \in toks
    THEN CHOOSE k \in 1..Len(text) :
             text[k] \in toks /\ \A m \in 1..(k - 1) : text[m] \notin toks
    ELSE Len(text) + 1

\* a member `name?: type` of a record type, read back
MemberName(member) == SubSeq(member, 1, FirstOf(member, {"?", ": "}) - 1)
MemberOptional(member) ==
    LET k == FirstOf(member, {"?", ": "})
    IN  k <= Len(member) /\ member[k] = "?"
MemberType(member) == SubSeq(member, FirstOf(member, {": "}) + 1, Len(member))

\* the members of a record type `{m1; m2; ...}`
RecordMembers(type) == SplitTop(SubSeq(type, 2, Len(type) - 1), "; ")

-----------------------------------------------------------------------------
(* Claims about schemaToTS and resolveRef, under SpecSynth *)

\* the node schemaToTS was called on is an object schema with a property map
IsRecordInput ==
    /\ input.schema # <<>>
    /\ input.schema[1].ref = <<>>
    /\ input.schema[1].type = "object"
    /\ input.schema[1].properties # <<>>

\* some segment of the reference is absent from the document
RefIsBroken(ref, d) ==
    LET r == resolveRef(ref, d) IN r.kind # "ok" \/ r.value = <<>>

\* C1: type synthesis of every schema node of a finite document ends with a
\* type expression or an explicit cycle error; it never recurses until the
\* call stack is exhausted, also when the $refs of the document form a cycle.
C1_NoUnboundedRecursion ==
    pc = "returned" => output.kind \in { "ok", "TypeError", "CycleError" }

\* C2: synthesis of a node whose $ref has an absent segment ends in a
\* broken-reference error: never a type expression, never a TypeError from
\* indexing undefined.
C2_BrokenRefFailsLoudly ==
    ( /\ pc = "returned"
      /\ input.schema # <<>>
      /\ input.schema[1].ref # <<>>
      /\ RefIsBroken(input.schema[1].ref, doc) )
    => output.kind = "BrokenReferenceError"

-----------------------------------------------------------------------------
(* Spec: the generator script, run on one document, possibly again *)

GET == <<"g","e","t">>
POST == <<"p","o","s","t">>

\* '/a-b', '/a_b' and '/a/{b}'
DriverRoutes ==
    { <<"/","a","-","b">>, <<"/","a","_","b">>, <<"/","a","/","{","b","}">> }

PathParamB == Parameter(<<"b">>, "path", TRUE, <<Primitive("integer")>>)

DriverOperations ==
    { Operation(<<>>, <<PathParamB>>, <<>>, <<Primitive("string")>>),
      Operation(<<"g","e","t","A","B">>, <<>>, <<>>, <<>>),
      Operation(<<>>, <<>>, <<[schema |-> <<RefMiddleAbsent>>]>>, <<>>) }

PathItem(route, methods) == [route |-> route, methods |-> methods]
MethodEntry(method, operation) == [method |-> method, operation |-> operation]

\* the (route, method, operation) triples of a path mapping, paths outer,
\* methods inner
RECURSIVE Pairs(_)
Pairs(paths) ==
    IF paths = <<>> THEN <<>>
    ELSE [k \in 1..Len(Head(paths).methods) |->
             [route |-> Head(paths).route,
              method |-> Head(paths).methods[k].method,
              operation |-> Head(paths).methods[k].operation]]
         \o Pairs(Tail(paths))

\* the path mapping whose entries, in order, are the given triples: a new
\* path item starts where the route changes
RECURSIVE Grouped(_)
Grouped(triples) ==
    IF triples = <<>> THEN <<>>
    ELSE LET rest == Grouped(Tail(triples))
             t == Head(triples)
             e == MethodEntry(t.method, t.operation)
         IN  IF rest # <<>> /\ Head(rest).route = t.route
             THEN <<PathItem(t.route, <<e>> \o Head(rest).methods)>> \o Tail(rest)
             ELSE <<PathItem(t.route, <<e>>)>> \o rest

DriverTriples ==
    { [route |-> r, method |-> m, operation |-> o] :
          r \in DriverRoutes, m \in { GET, POST }, o \in DriverOperations }

\* path mappings of at most MaxOps operations: the keys of an object are
\* distinct, so a route names one path item and a method one operation of it
DriverPaths ==
    { ps \in { Grouped(ts) : ts \in UNION { [1..n -> DriverTriples] : n \in 0..MaxOps } } :
          /\ \A x, y \in 1..Len(ps) : x # y => ps[x].route # ps[y].route
          /\ \A x \in 1..Len(ps) : \A y, z \in 1..Len(ps[x].methods) :
                 y # z => ps[x].methods[y].method # ps[x].methods[z].method }

Init ==
    /\ doc \in { Document(TRUE, TRUE, <<>>, ps) : ps \in DriverPaths }
    /\ pc = "start"
    /\ dirExists = FALSE
    /\ pi = 0 /\ mi = 0
    /\ files = NoFiles
    /\ written = <<>>
    /\ runs = 0
    /\ firstFiles = NoFiles
    /\ input = <<>> /\ output = Pending /\ call = Idle

\* lines 48-54: create the output directory, load the document, take its paths
Startup ==
    /\ pc = "start"
    /\ dirExists' = TRUE
    /\ pi' = 0 /\ mi' = 0
    /\ written' = <<>>
    /\ pc' = "paths"
    /\ UNCHANGED <<doc, files, runs, firstFiles, input, output, call>>

\* line 181: the outer loop takes the next [route, methods] entry
NextPath ==
    /\ pc = "paths"
    /\ pi < Len(doc.paths)
    /\ pi' = pi + 1 /\ mi' = 0
    /\ pc' = "methods"
    /\ UNCHANGED <<doc, dirExists, files, written, runs, firstFiles,
                   input, output, call>>

\* lines 182-187: the inner loop takes the next [method, operation] entry,
\* compiles it and writes the file; an error thrown by generateFunction is
\* caught nowhere and ends the process
EmitOperation ==
    /\ pc = "methods"
    /\ mi < Len(doc.paths[pi].methods)
    /\ LET route == doc.paths[pi].route
           method == doc.paths[pi].methods[mi + 1].method
           operation == doc.paths[pi].methods[mi + 1].operation
           functionCode == generateFunction(route, method, operation, doc)
           fileName == fileNameOf(route, method, operation)
       IN  IF functionCode.kind = "ok"
           THEN /\ files' = writeFileSync(files, fileName, functionCode.value)
                /\ written' = Append(written, [fileName |-> fileName,
                                               path |-> pi, method |-> mi + 1])
                /\ mi' = mi + 1
                /\ UNCHANGED <<pc, runs, firstFiles>>
           ELSE /\ pc' = "crashed"
                /\ runs' = runs + 1
                /\ firstFiles' = IF runs = 0 THEN files ELSE firstFiles
                /\ UNCHANGED <<files, written, mi>>
    /\ UNCHANGED <<doc, dirExists, pi, input, output, call>>

\* line 182: the methods of the current path are exhausted
EndPath ==
    /\ pc = "methods"
    /\ mi = Len(doc.paths[pi].methods)
    /\ pc' = "paths"
    /\ UNCHANGED <<doc, dirExists, pi, mi, files, written, runs, firstFiles,
                   input, output, call>>

\* lines 181, 190: the paths are exhausted; the success notice
Finish ==
    /\ pc = "paths"
    /\ pi = Len(doc.paths)
    /\ pc' = "done"
    /\ runs' = runs + 1
    /\ firstFiles' = IF runs = 0 THEN files ELSE firstFiles
    /\ UNCHANGED <<doc, dirExists, pi, mi, files, written, input, output, call>>

\* the script is started again on the unchanged document and output directory
Rerun ==
    /\ pc \in { "done", "crashed" }
    /\ runs < MaxRuns
    /\ pc' = "start"
    /\ UNCHANGED <<doc, dirExists, pi, mi, files, written, runs, firstFiles,
                   input, output, call>>

Next == Startup \/ NextPath \/ EmitOperation \/ EndPath \/ Finish \/ Rerun

Spec == Init /\ [][Next]_vars

-----------------------------------------------------------------------------
(* SpecCompile: one call generateFunction(route, method, operation) *)

MaxParams == 2

\* '/a', '/{a}', '/{a}/{b}' and '/{a}/x/{a}'
CompileRoutes ==
    { <<"/","a">>, <<"/","{","a","}">>,
      <<"/","{","a","}","/","{","b","}">>,
      <<"/","{","a","}","/","x","/","{","a","}">> }

CompileParameters ==
    { Parameter(n, "path", TRUE, <<Primitive("integer")>>) : n \in { <<"a">>, <<"b">> } }
    \cup { Parameter(n, "query", TRUE, <<Primitive("string")>>) : n \in { <<"a">>, <<"b">> } }
    \cup { Parameter(n, "query", FALSE, <<RefN>>) : n \in { <<"a">>, <<"b">> } }
    \cup { Parameter(n, "header", TRUE, <<Primitive("string")>>) : n \in { <<"a">>, <<"b">> } }
    \cup { Parameter(n, "cookie", FALSE, <<>>) : n \in { <<"a">>, <<"b">> } }

CompileOperations ==
    { Operation(<<>>, ps, body, resp) :
          ps \in UNION { [1..n -> CompileParameters] : n \in 0..MaxParams },
          body \in { <<>>, <<[schema |-> <<>>]>>,
                     <<[schema |-> <<ObjectOf(<<Entry(<<"a">>, Primitive("string")),
                                                 Entry(<<"b">>, Primitive("number"))>>,
                                               <<>>)>>]>> },
          resp \in { <<>>, <<RefN>> } }

CompileDocument ==
    Document(TRUE, TRUE,
             <<Entry(<<"N">>, ObjectOf(<<Entry(<<"a">>, Primitive("string")),
                                         Entry(<<"b">>, RefM)>>, <<<< <<"a">> >>>>)),
               Entry(<<"M">>, Primitive("integer"))>>,
             <<>>)

InitCompile ==
    /\ doc = CompileDocument
    /\ input \in { [route |-> r, method |-> GET, operation |-> o] :
                       r \in CompileRoutes, o \in CompileOperations }
    /\ output = Pending
    /\ pc = "call"
    /\ dirExists = FALSE /\ pi = 0 /\ mi = 0 /\ files = NoFiles
    /\ written = <<>> /\ runs = 0 /\ firstFiles = NoFiles /\ call = Idle

Compile ==
    /\ pc = "call"
    /\ output' = generateFunction(input.route, input.method, input.operation, doc)
    /\ pc' = "returned"
    /\ UNCHANGED <<doc, dirExists, pi, mi, files, written, runs, firstFiles,
                   input, call>>

NextCompile == Compile

SpecCompile == InitCompile /\ [][NextCompile]_vars

-----------------------------------------------------------------------------
(* SpecCall: one invocation of a generated function (the code of lines     *)
(* 160-177, as emitted), stepped statement by statement.  A statement that *)
(* evaluates caller-supplied values or does I/O may throw.                 *)

\* the tokens of code between the first `from` and the next `to`
Between(code, from, to) ==
    LET a == FirstOf(code, {from})
        rest == SubSeq(code, a + 1, Len(code))
    IN  SubSeq(rest, 1, FirstOf(rest, {to}) - 1)

DeclaredName(code) == Between(code, "export async function ", "(")
DeclaredSignature(code) == Between(code, "(", "): Promise<")
DeclaredUrl(code) == Between(code, "let url = ", ";")

HasToken(code, tok) == \E k \in 1..Len(code) : code[k] = tok
HasQueryHandling(code) ==
    HasToken(code, "const queryStr = new URLSearchParams(...).toString(); url += queryStr;")
HasBodyHandling(code) ==
    HasToken(code, "const options = { headers: Content-Type json, body: JSON.stringify(body) };")
\* the url template interpolates an argument of the call
HasPathInterpolation(code) ==
    LET url == DeclaredUrl(code)
    IN  \E k \in (Len(API_URL) + 1)..Len(url) : url[k] = "$"

\* mutant: `return res.json()` without the await leaves the try block
\* before the promise settles
InTryWithoutAwait(statement) ==
    statement \in { "url", "query", "options", "fetch", "status" }

\* the statements that lie inside the try block (lines 161-173)
InTry(statement) ==
    statement \in { "url", "query", "options", "fetch", "status", "json" }

\* `statement` throws (or the promise it awaits rejects)
Raise(c, statement) ==
    IF InTry(statement)
    THEN [c EXCEPT !.pc = "catch", !.failure = statement]
    ELSE [c EXCEPT !.pc = "rejected", !.failure = statement]

StatusCodes == { 200, 204, 404, 500 }
\* Response.ok
Ok(status) == status \in 200..299

CallOperations ==
    { Operation(<<>>, ps, body, <<>>) :
          ps \in { <<>>,
                   <<Parameter(<<"a">>, "path", TRUE, <<Primitive("integer")>>)>>,
                   <<Parameter(<<"b">>, "query", FALSE, <<Primitive("string")>>)>>,
                   <<Parameter(<<"a">>, "path", TRUE, <<Primitive("integer")>>),
                     Parameter(<<"b">>, "query", FALSE, <<Primitive("string")>>)>> },
          body \in { <<>>, <<[schema |-> <<Primitive("object")>>]>> } }

InitCall ==
    /\ doc = CompileDocument
    /\ input \in { [route |-> <<"/","{","a","}">>, method |-> m, operation |-> o] :
                       m \in { GET, POST }, o \in CallOperations }
    /\ output = generateFunction(input.route, input.method, input.operation, doc)
    /\ pc = "generated"
    /\ call = Idle
    /\ dirExists = FALSE /\ pi = 0 /\ mi = 0 /\ files = NoFiles
    /\ written = <<>> /\ runs = 0 /\ firstFiles = NoFiles

CallUnchanged ==
    UNCHANGED <<doc, pc, dirExists, pi, mi, files, written, runs, firstFiles,
                input, output>>

\* line 160: the function is called
Invoke ==
    /\ call.pc = "idle"
    /\ call' = [pc |-> "url", fetches |-> 0, logged |-> <<>>, status |-> 0,
                result |-> "none", failure |-> "none"]
    /\ CallUnchanged

\* line 162: let url = `...`
BuildUrl ==
    /\ call.pc = "url"
    /\ \/ call' = [call EXCEPT !.pc = "query"]
       \/ HasPathInterpolation(output.value) /\ call' = Raise(call, "url")
    /\ CallUnchanged

\* line 163: the query string, when the operation has query parameters
BuildQuery ==
    /\ call.pc = "query"
    /\ \/ call' = [call EXCEPT !.pc = "options"]
       \/ HasQueryHandling(output.value) /\ call' = Raise(call, "query")
    /\ CallUnchanged

\* line 164: const options = ...
BuildOptions ==
    /\ call.pc = "options"
    /\ \/ call' = [call EXCEPT !.pc = "fetch"]
       \/ HasBodyHandling(output.value) /\ call' = Raise(call, "options")
    /\ CallUnchanged

\* line 165: const res = await fetch(url, options)
Fetch ==
    /\ call.pc = "fetch"
    /\ \/ \E status \in StatusCodes :
            call' = [call EXCEPT !.pc = "status", !.fetches = @ + 1,
                                 !.status = status]
       \/ call' = Raise([call EXCEPT !.fetches = @ + 1], "fetch")
    /\ CallUnchanged

\* lines 167-170: if (!res.ok) { console.error(...); return null; }
RejectStatus ==
    /\ call.pc = "status"
    /\ ~Ok(call.status)
    /\ call' = [call EXCEPT !.pc = "returned", !.result = "null",
                            !.failure = "status",
                            !.logged = Append(@, "API error")]
    /\ CallUnchanged

\* line 172: return await res.json()
DecodeBody ==
    /\ call.pc = "status"
    /\ Ok(call.status)
    /\ \/ call' = [call EXCEPT !.pc = "returned", !.result = "payload"]
       \/ call' = Raise(call, "json")
    /\ CallUnchanged

\* lines 173-176: catch (error) { console.error(error); return null; }
Catch ==
    /\ call.pc = "catch"
    /\ call' = [call EXCEPT !.pc = "returned", !.result = "null",
                            !.logged = Append(@, "error")]
    /\ CallUnchanged

NextCall ==
    Invoke \/ BuildUrl \/ BuildQuery \/ BuildOptions \/ Fetch \/ RejectStatus
        \/ DecodeBody \/ Catch

SpecCall == InitCall /\ [][NextCall]_vars

-----------------------------------------------------------------------------
(* Claims about the generated function at run time, under SpecCall *)

-----------------------------------------------------------------------------
(* Claims about generateFunction, under SpecCompile *)

PartKind(part) ==
    CASE Head(part) = "{ " -> "path"
      [] Head(part) = "query: { " -> "query"
      [] Head(part) = "body: " -> "body"
      [] OTHER -> "other"

\* the parts that apply to the operation, in the fixed order
ExpectedParts(operation) ==
    (IF \E k \in 1..Len(operation.parameters) : operation.parameters[k].in = "path"
     THEN <<"path">> ELSE <<>>)
    \o (IF \E k \in 1..Len(operation.parameters) : operation.parameters[k].in = "query"
        THEN <<"query">> ELSE <<>>)
    \o (IF operation.requestBody # <<>> THEN <<"body">> ELSE <<>>)

\* C6: the signature is the comma-joined sequence of exactly the parts that
\* apply, in the order path group, query, body; it is the placeholder
\* parameter iff none applies; header and cookie parameters add nothing.
C6_SignatureParts ==
    (pc = "returned" /\ output.kind = "ok") =>
        LET sig == DeclaredSignature(output.value)
            parts == SplitTop(sig, ", ")
            expected == ExpectedParts(input.operation)
        IN  /\ (sig = <<"_?: void">>) <=> (expected = <<>>)
            /\ expected # <<>> =>
                 /\ Len(parts) = Len(expected)
                 /\ \A k \in 1..Len(parts) :
                        parts[k] # <<>> /\ PartKind(parts[k]) = expected[k]

\* C6 witness: an operation with a path parameter, a query parameter and a
\* request body has been compiled, so all three parts are joined
C6_Witness ==
    /\ pc = "returned" /\ output.kind = "ok"
    /\ ExpectedParts(input.operation) = <<"path", "query", "body">>

\* C7: in the URL expression every `{name}` of a declared path parameter is
\* replaced by `${name}`, every occurrence of it: no `{name}` is left without
\* the `$` in front of it.
C7_EveryPlaceholderSubstituted ==
    (pc = "returned" /\ output.kind = "ok") =>
        LET url == DeclaredUrl(output.value)
            ps == input.operation.parameters
        IN  \A p \in 1..Len(ps) : ps[p].in = "path" =>
              \A k \in 1..Len(url) :
                 OccursAt(url, <<"{">> \o ps[p].name \o <<"}">>, k)
                     => (k > 1 /\ url[k - 1] = "$")

-----------------------------------------------------------------------------
(* Claims about the emission loop, under Spec *)

\* the file name the loop derives for a triple of the path mapping
KeyOf(t) == fileNameOf(t.route, t.method, t.operation)
CodeOf(t, d) == generateFunction(t.route, t.method, t.operation, d).value

\* C4: every file is stored under the name of the function its content
\* declares, whether that name is the operationId or made of method and path.
C4_KeyIsFunctionName ==
    \A k \in DOMAIN files : DeclaredName(files[k]) = k

\* C4 witness: a run wrote one file named by an operationId and one named
\* by method and path, the latter changed by the camel-case fold
C4_Witness ==
    /\ pc = "done"
    /\ LET ts == Pairs(doc.paths)
       IN  /\ \E n \in 1..Len(ts) : ts[n].operation.operationId # <<>>
           /\ \E n \in 1..Len(ts) :
                 /\ ts[n].operation.operationId = <<>>
                 /\ KeyOf(ts[n]) # ts[n].method \o ReplaceNonWordRuns(ts[n].route)
                 /\ KeyOf(ts[n]) \in DOMAIN files

\* C5: a complete run has written once per (path, method) pair, in the order
\* paths outer, methods inner; the file under a name holds the code of the
\* last pair in that order that derives the name.
C5_LastWriteWins ==
    pc = "done" =>
        LET ts == Pairs(doc.paths)
        IN  /\ Len(written) = Len(ts)
            /\ \A n \in 1..Len(ts) :
                 /\ written[n].fileName = KeyOf(ts[n])
                 /\ doc.paths[written[n].path].route = ts[n].route
                 /\ doc.paths[written[n].path].methods[written[n].method].method
                        = ts[n].method
            /\ DOMAIN files = { KeyOf(ts[n]) : n \in 1..Len(ts) }
            /\ \A k \in DOMAIN files :
                 \E n \in 1..Len(ts) :
                    /\ KeyOf(ts[n]) = k
                    /\ \A m \in (n + 1)..Len(ts) : KeyOf(ts[m]) # k
                    /\ files[k] = CodeOf(ts[n], doc)

\* C5 witness: a complete run in which the first two pairs derive the same
\* name but different code, and the file holds the second pair's code
C5_Witness ==
    /\ pc = "done"
    /\ Len(written) >= 2
    /\ LET ts == Pairs(doc.paths)
       IN  /\ KeyOf(ts[1]) = KeyOf(ts[2])
           /\ CodeOf(ts[1], doc) # CodeOf(ts[2], doc)
           /\ \A m \in 3..Len(ts) : KeyOf(ts[m]) # KeyOf(ts[1])
           /\ files[KeyOf(ts[1])] = CodeOf(ts[2], doc)

\* C9: a second pass over the unchanged document leaves the output directory
\* with the same file names and the same content under each as the first.
C9_SecondPassIdentical ==
    (runs >= 2 /\ pc \in { "done", "crashed" }) => files = firstFiles

\* C9 witness: two complete passes over a document that yields two files
C9_Witness ==
    /\ runs = 2 /\ pc = "done"
    /\ Cardinality(DOMAIN files) >= 2

\* C10: the derived identifier contains no underscore: the camel-case fold
\* turns every underscore-letter pair into the capital letter and removes the
\* underscores.
C10_NoUnderscore ==
    \A k \in DOMAIN files :
        \A n \in 1..Len(DeclaredName(files[k])) : DeclaredName(files[k])[n] # "_"

=============================================================================
